---- MODULE Spec2Model ----
(***************************************************************************)
(* A model of the hikextractor DVR-image extractor.                        *)
(*                                                                         *)
(* Two source files carry the parsing and carving code:                    *)
(*   "cli"  src/src/hikextractor.py      (the command-line tool)           *)
(*   "lib"  src/src/hikvision_parser.py  (the library behind the GUI)      *)
(* The variable prog says which of the two is running.  Where the two      *)
(* files hold the same function with different bodies, the model keeps the *)
(* source's name for hikextractor.py and prefixes lib_ for the other.      *)
(*                                                                         *)
(* Specifications:                                                         *)
(*   SpecCarve  export_footage_from_block on one data block and one sink   *)
(*   SpecParse  parse_master_block followed by parse_hbtree on one image   *)
(*   SpecExport export_all_videos (cli) and parse_metadata followed by the  *)
(*              export loop of ParserWorker.run (lib) on one image         *)
(*   SpecRename rename_file_if_exists on one path and one directory        *)
(*   SpecSink   export_file of hikvision_parser.py around the carver       *)
(*   SpecWorker ParserWorker.run of hikextractor-gui.py, one worker        *)
(*   SpecGui    MainWindow of hikextractor-gui.py: buttons, workers, slots *)
(* SpecCarveFair and SpecWorkerFair add the weak fairness of the running   *)
(* loop and of the worker's thread.                                        *)
(***************************************************************************)
EXTENDS Integers, Sequences, FiniteSets, TLC

VARIABLES
    prog,          \* "cli" or "lib": the file whose code runs
    pc,            \* position of the running function
    \* ---- carver (export_footage_from_block) ----
    datablock,     \* the data block handed to the carver
    start_offset,  \* start_offset (cli) / current_offset (lib); -1 = not found
    end_offset,    \* end_offset of the current iteration; -1 = not found
    writes,        \* every outfile.write call so far: [a, b, ok]
    ret,           \* the return statement the carver left through
    \* ---- parser (parse_master_block, parse_hbtree) ----
    image,         \* the mapped disk image
    master,        \* the MasterBlock returned, or NoMaster
    offset_page,   \* parse_hbtree: offset_page
    safe_count,    \* parse_hbtree: safe_count
    entries,       \* parse_hbtree: entries
    visited,       \* history: the page offsets read so far, in order
    warned,        \* the page-limit warning was printed
    err,           \* the exception that left the function, or "none"
    \* ---- orchestrator (export_all_videos, parse_metadata, ParserWorker.run) ----
    opts,          \* the arguments: list_only, master_only, raw, channel, physical
    version_warned,\* the "tested only with version ..." message was printed
    entrylist,     \* the filtered and sorted entry list the loop runs over
    seq,           \* export_all_videos: seq
    emitted,       \* history: one record per loop iteration begun
    files,         \* the paths that exist in the destination folder
    \* ---- rename_file_if_exists ----
    filename,      \* the argument
    new_filename,  \* new_filename
    count,         \* count
    \* ---- export_file (hikvision_parser.py) ----
    sink,          \* the output sink: "none", "open", "closed"
    \* ---- hikextractor-gui.py ----
    window,        \* MainWindow: buttons, current_parser, output folder, table
    parsers,       \* the HikvisionParser objects created so far
    workers,       \* the ParserWorker objects handed to the thread pool
    events         \* the signals queued for the slots of the main thread

carveVars == <<datablock, start_offset, end_offset, writes, ret>>
parseVars == <<image, master, offset_page, safe_count, entries, visited, warned, err>>
exportVars == <<opts, version_warned, entrylist, seq, emitted, files>>
renameVars == <<filename, new_filename, count>>
\* the variables of the orchestrator, of rename_file_if_exists and of export_file
guiVars == <<window, parsers, workers, events>>
orchVars == <<opts, version_warned, entrylist, seq, emitted, files,
              filename, new_filename, count, sink, window, parsers, workers, events>>
vars == <<prog, pc, datablock, start_offset, end_offset, writes, ret,
          image, master, offset_page, safe_count, entries, visited, warned, err,
          opts, version_warned, entrylist, seq, emitted, files,
          filename, new_filename, count, sink,
          window, parsers, workers, events>>

Min(a, b) == IF a <= b THEN a ELSE b
Max(a, b) == IF a >= b THEN a ELSE b
SetMin(S) == CHOOSE x \in S : \A y \in S : x <= y
SetMax(S) == CHOOSE x \in S : \A y \in S : x >= y

(***************************************************************************)
(* Data blocks.                                                            *)
(*                                                                         *)
(* A data block is a byte string of up to a megabyte; the carver only      *)
(* slices it and searches it for BA_NAL = 00 00 01 BA.  The block is kept  *)
(* as its length, the set of offsets at which BA_NAL occurs, and the value *)
(* of every byte outside those occurrences (fill).  BA_NAL cannot overlap  *)
(* itself, so two occurrences are at least 4 bytes apart, and a filler of  *)
(* 0x00 or 0xFF never completes an occurrence.                             *)
(***************************************************************************)
BA_NAL_LEN == 4

\* hikextractor.py:269 / hikvision_parser.py:161: the first search window
FIRST_WINDOW == 4096
\* hikextractor.py:273 / hikvision_parser.py:166: 120 * 1024
CHUNK_SIZE == 122880
\* hikextractor.py:280: the re-synchronisation window
RESYNC_WINDOW == 512
\* hikextractor.py:273: start_offset + 5
CLI_SKIP == 5

\* Bounds of the data blocks explored.
MaxCodes == 3

FirstOffsets == {0, 100, 4092, 4093, 4096}
Gaps == {4, 5, 512, 4900, 122880, 122881, 122882}
Tails == {0, 10}
EmptyLens == {0, 3, 5000}

RECURSIVE CodeOffsets(_, _)
\* the offsets of the start codes given the first offset and the gaps
CodeOffsets(first, gaps) ==
    IF gaps = <<>> THEN {first}
    ELSE {first} \cup CodeOffsets(first + Head(gaps), Tail(gaps))

GapSeqs == UNION {[1..n -> Gaps] : n \in 0..(MaxCodes - 1)}

DataBlocks ==
    {[len |-> n, codes |-> {}, fill |-> f] : n \in EmptyLens, f \in {0, 255}}
    \cup
    {[len |-> SetMax(CodeOffsets(k, g)) + BA_NAL_LEN + t,
      codes |-> CodeOffsets(k, g), fill |-> f] :
        k \in FirstOffsets, g \in GapSeqs, t \in Tails, f \in {0, 255}}

\* buff[start : start + size].find(BA_NAL), then + start unless negative.
\* The slice ends at min(start + size, len(buff)); find returns the lowest
\* index at which the whole pattern lies inside the slice.
find_in_bytes(buff, start, size) ==
    LET hi == Min(start + size, buff.len)
        hits == {p \in buff.codes : p >= start /\ p + BA_NAL_LEN <= hi}
    IN IF hits = {} THEN -1 ELSE SetMin(hits)

\* the writes that raised
FailedWrites == {i \in 1..Len(writes) : ~writes[i].ok}

NoBlock == [len |-> 0, codes |-> {}, fill |-> 0]
NoImage == [len |-> 0, strs |-> <<>>, cells |-> <<>>]
NoMaster == [signature |-> <<>>]

ParseIdle ==
    /\ image = NoImage
    /\ master = NoMaster
    /\ offset_page = 0
    /\ safe_count = 0
    /\ entries = <<>>
    /\ visited = <<>>
    /\ warned = FALSE
    /\ err = "none"

\* channel = None
NoChannel == -1
NoOpts == [list_only |-> FALSE, master_only |-> FALSE, raw |-> FALSE,
           channel |-> NoChannel, physical |-> FALSE]

ExportIdle ==
    /\ opts = NoOpts
    /\ version_warned = FALSE
    /\ entrylist = <<>>
    /\ seq = 0
    /\ emitted = <<>>
    /\ files = {}

\* hikextractor-gui.py:80-89, 115, 164: the window after construction
NoWindow == [btn_parse |-> FALSE, btn_export_selected |-> FALSE,
             current_parser |-> 0, output_path |-> FALSE, table |-> <<>>,
             fault |-> "none"]

GuiIdle ==
    /\ window = NoWindow
    /\ parsers = <<>>
    /\ workers = <<>>
    /\ events = <<>>

RenameIdle ==
    /\ filename = <<>>
    /\ new_filename = <<>>
    /\ count = 0

InitCarve ==
    /\ prog \in {"cli", "lib"}
    /\ pc = "carve_start"
    /\ datablock \in DataBlocks
    /\ start_offset = -1
    /\ end_offset = -1
    /\ writes = <<>>
    /\ ret = "none"
    /\ ParseIdle
    /\ ExportIdle
    /\ RenameIdle
    /\ sink = "none"
    /\ GuiIdle

\* the first search without "if start_offset < 0: return"
export_footage_from_block_start_noreturn ==
    /\ pc = "carve_start"
    /\ start_offset' = find_in_bytes(datablock, 0, FIRST_WINDOW)
    /\ pc' = "carve_loop"
    /\ UNCHANGED <<prog, datablock, end_offset, writes, ret>>
    /\ UNCHANGED <<image, master, offset_page, safe_count, entries, visited, warned, err>>
    /\ UNCHANGED orchVars

\* hikextractor.py:269-271 and hikvision_parser.py:161-167: the search for
\* the first start code, the same in both files
export_footage_from_block_start ==
    /\ pc = "carve_start"
    /\ start_offset' = find_in_bytes(datablock, 0, FIRST_WINDOW)
    /\ IF start_offset' < 0
       THEN pc' = "carve_done" /\ ret' = "Empty"
       ELSE pc' = "carve_loop" /\ ret' = ret
    /\ UNCHANGED <<prog, datablock, end_offset, writes>>
    /\ UNCHANGED parseVars
    /\ UNCHANGED orchVars

\* datablock[start_offset:] in place of datablock[start_offset:end_offset]
cli_write_end_tail(D, a, b) == D.len

\* hikextractor.py:277: the end of the slice datablock[start_offset:end_offset]
cli_write_end(D, a, b) == b

\* the search for the end offset begun at the start offset itself
cli_search_from_start(start) == start

\* hikextractor.py:273: the search for the end offset begins at
\* start_offset + 5
cli_search_from(start) == start + CLI_SKIP

\* the re-synchronisation search begun one byte after the end offset
cli_resync_from_next(end) == end + 1

\* hikextractor.py:280: the re-synchronisation search begins at end_offset
cli_resync_from(end) == end

\* hikextractor.py:273-282: one iteration of the while loop.  The write may
\* raise (the sink was closed downstream); the bare except returns.
export_footage_from_block_iter ==
    /\ pc = "carve_loop"
    /\ prog = "cli"
    /\ end_offset' = find_in_bytes(datablock, cli_search_from(start_offset), CHUNK_SIZE)
    /\ IF end_offset' < 0
       THEN /\ pc' = "carve_done" /\ ret' = "Done"
            /\ UNCHANGED <<start_offset, writes>>
       ELSE \E ok \in BOOLEAN :
            /\ writes' = Append(writes,
                   [a |-> start_offset,
                    b |-> cli_write_end(datablock, start_offset, end_offset'),
                    ok |-> ok])
            /\ IF ~ok
               THEN pc' = "carve_done" /\ ret' = "SinkClosed"
                    /\ UNCHANGED start_offset
               ELSE /\ start_offset' = find_in_bytes(datablock, cli_resync_from(end_offset'),
                                                 RESYNC_WINDOW)
                    /\ IF start_offset' < 0
                       THEN pc' = "carve_done" /\ ret' = "Done"
                       ELSE pc' = "carve_loop" /\ ret' = ret
    /\ UNCHANGED <<prog, datablock>>
    /\ UNCHANGED parseVars
    /\ UNCHANGED orchVars

\* hikvision_parser.py:169-187: one iteration of the while loop.  When no
\* further start code is found the rest of the block is written (a failure
\* of that write is swallowed by "except: pass").
lib_export_footage_from_block_iter ==
    /\ pc = "carve_loop"
    /\ prog = "lib"
    /\ end_offset' = find_in_bytes(datablock, start_offset + BA_NAL_LEN, CHUNK_SIZE)
    /\ \E ok \in BOOLEAN :
        IF end_offset' < 0
        THEN /\ writes' = Append(writes,
                    [a |-> start_offset, b |-> datablock.len, ok |-> ok])
             /\ pc' = "carve_done"
             /\ ret' = IF ok THEN "Done" ELSE "SinkClosed"
             /\ UNCHANGED start_offset
        ELSE /\ writes' = Append(writes,
                    [a |-> start_offset, b |-> end_offset', ok |-> ok])
             /\ IF ~ok
                THEN pc' = "carve_done" /\ ret' = "SinkClosed"
                     /\ UNCHANGED start_offset
                ELSE pc' = "carve_loop" /\ ret' = ret
                     /\ start_offset' = end_offset'
    /\ UNCHANGED <<prog, datablock>>
    /\ UNCHANGED parseVars
    /\ UNCHANGED orchVars

NextCarve ==
    \/ export_footage_from_block_start
    \/ export_footage_from_block_iter
    \/ lib_export_footage_from_block_iter

SpecCarve == InitCarve /\ [][NextCarve]_vars

\* the carver runs on: a sequential loop is never suspended for ever
SpecCarveFair == SpecCarve /\ WF_vars(NextCarve)

(***************************************************************************)
(* Disk images.                                                            *)
(*                                                                         *)
(* An image is a zero-filled byte string of length len in which byte       *)
(* strings (strs) and little-endian integers (cells) are planted at given  *)
(* offsets.  Every read goes through an offset, as in the code; a read     *)
(* that runs past the end of the buffer is Python's short slice, on which  *)
(* struct.unpack raises (StructError).  A view is a slice of the image.    *)
(***************************************************************************)
StructError == -1

View(img) == [img |-> img, base |-> 0, len |-> img.len]

\* v[a:b] for 0 <= a <= b
Slice(v, a, b) ==
    [img |-> v.img, base |-> v.base + a, len |-> Max(0, Min(b, v.len) - a)]

CellAt(img, a) == IF a \in DOMAIN img.cells THEN img.cells[a] ELSE 0

\* bytes(v[a:b]): the bytes present, shorter than b - a at the end of v
BytesOf(v, a, b) ==
    LET n == Max(0, Min(b, v.len) - a)
        s == IF v.base + a \in DOMAIN v.img.strs
             THEN v.img.strs[v.base + a] ELSE <<>>
    IN [i \in 1..n |-> IF i <= Len(s) THEN s[i] ELSE 0]

\* struct.unpack on buff[offset : offset + w]
Unpack(buff, offset, w) ==
    IF offset + w > buff.len THEN StructError ELSE CellAt(buff.img, buff.base + offset)

to_uint8(buff, offset) == Unpack(buff, offset, 1)
to_uint32(buff, offset) == Unpack(buff, offset, 4)
to_uint64(buff, offset) == Unpack(buff, offset, 8)
\* seconds since the epoch, UTC; every u32 is a valid datetime
to_datetime(buff, offset) == to_uint32(buff, offset)

SIGNATURE == <<72, 73, 75, 86, 73, 83, 73, 79, 78, 64, 72, 65, 78, 71, 90, 72, 79, 85>>
HIKBTREE_SIGNATURE == <<72, 73, 75, 66, 84, 82, 69, 69>>
SUPPORTED_VERSION == <<72, 73, 75, 46, 50, 48, 49, 49, 46, 48, 51, 46, 48, 56>>

MASTER_START == 512
MASTER_END == 864
RECORDING_SENTINEL == 2147483647
\* 0xFFFFFFFFFFFFFFFF.  TLC's integers have 32 bits; the all-ones u64, which
\* no offset of an explored image equals, is written as -2.
END_OF_CHAIN == -2
ENTRY_STRIDE == 48
FIRST_ENTRY == 96
CLI_SAFE_COUNT == 100
LIB_SAFE_COUNT == 1000

\* parse_master_block: the result is [err, mb]; err names the exception
\* raised ("none" when a MasterBlock is returned).
MasterFieldWidths ==
    [capacity |-> <<72, 8>>, offset_system_logs |-> <<96, 8>>,
     size_system_logs |-> <<104, 8>>, offset_video_area |-> <<120, 8>>,
     size_data_block |-> <<136, 8>>, total_data_blocks |-> <<144, 4>>,
     offset_hibtree1 |-> <<152, 8>>, size_hibtree1 |-> <<160, 4>>,
     offset_hibtree2 |-> <<168, 8>>, size_hibtree2 |-> <<176, 4>>,
     time_system_init |-> <<240, 4>>]

\* the check of the master signature left out
signature_ok_always(signature) == TRUE

signature_ok(signature) == signature = SIGNATURE

parse_master_block(mappedfile) ==
    LET m == Slice(View(mappedfile), MASTER_START, MASTER_END)
        signature == BytesOf(m, 16, 34)
        version == BytesOf(m, 48, 62)
        f == [k \in DOMAIN MasterFieldWidths |->
                 Unpack(m, MasterFieldWidths[k][1], MasterFieldWidths[k][2])]
    IN IF ~signature_ok(signature)
       THEN [err |-> "Wrong master block signature", mb |-> NoMaster]
       ELSE IF \E k \in DOMAIN f : f[k] = StructError
       THEN [err |-> "struct.error", mb |-> NoMaster]
       ELSE [err |-> "none",
             mb |-> [signature |-> signature,
                     version |-> version,
                     capacity |-> f.capacity,
                     offset_system_logs |-> f.offset_system_logs,
                     size_system_logs |-> f.size_system_logs,
                     offset_video_area |-> f.offset_video_area,
                     size_data_block |-> f.size_data_block,
                     total_data_blocks |-> f.total_data_blocks,
                     offset_hibtree1 |-> f.offset_hibtree1,
                     size_hibtree1 |-> f.size_hibtree1,
                     offset_hibtree2 |-> f.offset_hibtree2,
                     size_hibtree2 |-> f.size_hibtree2,
                     time_system_init |-> f.time_system_init]]

\* parse_hbt_entry: [kind, e] with kind "raise" (struct.error), "none"
\* (the function returned None) or "entry".  An absent timestamp is <<>>,
\* a present one <<seconds>>.
NoEntry == [channel |-> 0]

has_footage_of(tombstone) == tombstone = 0

parse_hbt_entry(data, offset) ==
    LET tombstone == to_uint64(data, offset + 8)
        channel == to_uint8(data, offset + 17)
        dt1 == to_uint32(data, offset + 24)
        offset_datablock == to_uint64(data, offset + 32)
        has_footage == has_footage_of(tombstone)
        recording == dt1 = RECORDING_SENTINEL
    IN IF StructError \in {tombstone, channel, dt1, offset_datablock}
       THEN [kind |-> "raise", e |-> NoEntry]
       ELSE IF ~has_footage
       THEN [kind |-> "none", e |-> NoEntry]
       ELSE [kind |-> "entry",
             e |-> [channel |-> channel,
                    has_footage |-> has_footage,
                    recording |-> recording,
                    start_timestamp |->
                        IF recording THEN <<>> ELSE <<to_datetime(data, offset + 24)>>,
                    end_timestamp |->
                        IF recording THEN <<>> ELSE <<to_datetime(data, offset + 28)>>,
                    offset_datablock |-> offset_datablock]]

\* slot i of the page whose first entry is at first_entry
\* every slot read at the first entry
slot_offset_fixed(first_entry, i) == first_entry

slot_offset(first_entry, i) == first_entry + i * ENTRY_STRIDE

RECURSIVE page_entries(_, _, _, _)
\* hikextractor.py:186-189: the for loop over range(entry_count), from slot
\* i on; [raised, list]
page_entries(data, first_entry, i, entry_count) ==
    IF i >= entry_count THEN [raised |-> FALSE, list |-> <<>>]
    ELSE LET r == parse_hbt_entry(data, slot_offset(first_entry, i))
             rest == page_entries(data, first_entry, i + 1, entry_count)
         IN IF r.kind = "raise" \/ rest.raised
            THEN [raised |-> TRUE, list |-> <<>>]
            ELSE [raised |-> FALSE,
                  list |-> IF r.kind = "entry" THEN <<r.e>> \o rest.list
                           ELSE rest.list]

(***************************************************************************)
(* The images explored: a master block at 0x200, an index header at        *)
(* 0x1000 and index pages at 0x2000 and 0x3000, each field planted at the  *)
(* offset the on-disk format gives it.                                     *)
(***************************************************************************)
\* Bound: the slots planted in one index page.
MaxSlots == 2

\* the layout of the images: index header at 0x1000, pages at 0x2000 and
\* 0x3000, an image of 2 MiB with data blocks of 1 MiB
INDEX_AT == 16 * 256
PAGE1 == 2 * INDEX_AT
PAGE2 == 3 * INDEX_AT
BIG_IMAGE == 2 * 1024 * 1024
OUT_OF_IMAGE == 3 * 1024 * 1024
DATA_BLOCK_SIZE == 1024 * 1024

SlotDone == [tombstone |-> 0, channel |-> 7, dt1 |-> 1700000000,
             dt2 |-> 1700000060, off |-> 65536]
SlotRecording == [tombstone |-> 0, channel |-> 7, dt1 |-> RECORDING_SENTINEL,
                  dt2 |-> 0, off |-> 1048576]
SlotTombstoned == [tombstone |-> 1, channel |-> 2, dt1 |-> 1700000000,
                   dt2 |-> 1700000060, off |-> 131072]
SlotReversed == [tombstone |-> 0, channel |-> 2, dt1 |-> 1700000060,
                 dt2 |-> 1700000000, off |-> 1048577]
SlotZero == [tombstone |-> 0, channel |-> 0, dt1 |-> 0, dt2 |-> 0, off |-> 0]
SlotKinds == {SlotDone, SlotRecording, SlotTombstoned, SlotReversed, SlotZero}

BadSignature == [i \in 1..18 |-> IF i = 18 THEN 86 ELSE SIGNATURE[i]]
ZeroSignature == [i \in 1..18 |-> 0]
BadIndexSignature == [i \in 1..8 |-> IF i = 8 THEN 70 ELSE HIKBTREE_SIGNATURE[i]]
OtherVersion == [i \in 1..14 |-> IF i = 14 THEN 57 ELSE SUPPORTED_VERSION[i]]

\* the (offset, value) pairs of one page
PageCells(base, page) ==
    {<<base + 16, page.count>>, <<base + 32, page.next>>}
    \cup UNION {
        LET s == base + FIRST_ENTRY + (i - 1) * ENTRY_STRIDE
            sl == page.slots[i]
        IN {<<s + 8, sl.tombstone>>, <<s + 17, sl.channel>>, <<s + 24, sl.dt1>>,
            <<s + 28, sl.dt2>>, <<s + 32, sl.off>>}
        : i \in 1..Len(page.slots)}

MasterCells(hib1) ==
    {<<MASTER_START + 72, BIG_IMAGE>>, <<MASTER_START + 96, 1024>>,
     <<MASTER_START + 104, 2048>>, <<MASTER_START + 120, 65536>>,
     <<MASTER_START + 136, DATA_BLOCK_SIZE>>, <<MASTER_START + 144, 1>>,
     <<MASTER_START + 152, hib1>>, <<MASTER_START + 160, 4096>>,
     <<MASTER_START + 168, 32768>>, <<MASTER_START + 176, 4096>>,
     <<MASTER_START + 240, 1600000000>>}

MkImage(len, sig, ver, hib1, idxsig, first, pages) ==
    LET pairs == MasterCells(hib1) \cup {<<INDEX_AT + 88, first>>}
                 \cup UNION {PageCells(b, pages[b]) : b \in DOMAIN pages}
    IN [len |-> len,
        strs |-> (MASTER_START + 16 :> sig) @@ (MASTER_START + 48 :> ver)
                 @@ (INDEX_AT + 16 :> idxsig),
        cells |-> [a \in {pr[1] : pr \in pairs} |->
                      (CHOOSE pr \in pairs : pr[1] = a)[2]]]

Page(n, next, slots) == [count |-> n, next |-> next, slots |-> slots]

SlotSeqs == [1..MaxSlots -> SlotKinds]
PlainSlots == [i \in 1..MaxSlots |-> IF i = 1 THEN SlotDone ELSE SlotRecording]

StdImage(first, pages) ==
    MkImage(BIG_IMAGE, SIGNATURE, SUPPORTED_VERSION, INDEX_AT,
            HIKBTREE_SIGNATURE, first, pages)

\* page chains that end: one page; two pages in either address order; a
\* next-pointer that leaves the image
AcyclicImages ==
    {StdImage(PAGE1, PAGE1 :> Page(c, nx, s)) :
        c \in 0..MaxSlots, s \in SlotSeqs, nx \in {END_OF_CHAIN, OUT_OF_IMAGE}}
    \cup
    {StdImage(first,
              (first :> Page(c, (PAGE1 + PAGE2) - first, s))
              @@ ((PAGE1 + PAGE2) - first :> Page(c2, END_OF_CHAIN, PlainSlots))) :
        first \in {PAGE1, PAGE2}, c \in 0..MaxSlots, s \in SlotSeqs, c2 \in 0..1}

\* page chains that never end: a page that points to itself, two pages that
\* point to each other, a tail that points to itself, and a pointer into the
\* zero-filled start of the image (whose next-pointer reads as 0: itself)
CyclicImages ==
    {StdImage(PAGE1, PAGE1 :> Page(c, PAGE1, PlainSlots)) : c \in 0..1}
    \cup
    {StdImage(PAGE1, (PAGE1 :> Page(c, PAGE2, PlainSlots))
                     @@ (PAGE2 :> Page(1 - c, nx, PlainSlots))) :
        c \in 0..1, nx \in {PAGE1, PAGE2}}
    \cup
    {StdImage(PAGE1, PAGE1 :> Page(1, 0, PlainSlots))}

\* long page chains that end: n pages, INDEX_AT apart from PAGE1 on, each
\* with one live slot, the last with next-pointer END_OF_CHAIN; the lengths
\* lie on both sides of the page limit of hikextractor.py
ChainLens == {CLI_SAFE_COUNT + 1, CLI_SAFE_COUNT + 2}
ChainPage(k) == PAGE1 + (k - 1) * INDEX_AT
ChainImage(n) ==
    StdImage(PAGE1,
             [b \in {ChainPage(k) : k \in 1..n} |->
                 Page(1, IF b = ChainPage(n) THEN END_OF_CHAIN ELSE b + INDEX_AT,
                      <<SlotDone>>)])
LongChainImages == {ChainImage(n) : n \in ChainLens}

\* variations of the master block and the index header over one good page.
\* An empty file never reaches parse_master_block (mmap raises on it), so
\* the shortest image has one byte.
ImageLens == {1, 545, 546, 591, 755, 756, 863, 864, 1024, 4120, 4192, BIG_IMAGE}

MasterImages ==
    {MkImage(len, sig, ver, hib1, idxsig, PAGE1,
             PAGE1 :> Page(1, END_OF_CHAIN, PlainSlots)) :
        len \in ImageLens,
        sig \in {SIGNATURE, BadSignature, ZeroSignature},
        ver \in {SUPPORTED_VERSION, OtherVersion},
        hib1 \in {INDEX_AT, 0, OUT_OF_IMAGE},
        idxsig \in {HIKBTREE_SIGNATURE, BadIndexSignature}}

\* 0x400 bytes of zeros
ZeroImage == [len |-> 1024, strs |-> <<>>, cells |-> <<>>]

Images ==
    AcyclicImages \cup CyclicImages \cup LongChainImages \cup MasterImages
    \cup {ZeroImage}

CarveIdle ==
    /\ datablock = NoBlock
    /\ start_offset = -1
    /\ end_offset = -1
    /\ writes = <<>>
    /\ ret = "none"

InitParse ==
    /\ prog \in {"cli", "lib"}
    /\ pc = "parse_master"
    /\ image \in Images
    /\ master = NoMaster
    /\ offset_page = 0
    /\ safe_count = 0
    /\ entries = <<>>
    /\ visited = <<>>
    /\ warned = FALSE
    /\ err = "none"
    /\ CarveIdle
    /\ ExportIdle
    /\ RenameIdle
    /\ sink = "none"
    /\ GuiIdle

\* hikextractor.py:562-569: the message printed when the version is not
\* HIK.2011.03.08; hikvision_parser.py has no such comparison
version_check(p, version) == p = "cli" /\ version # SUPPORTED_VERSION

\* hikextractor.py:555-569 / hikvision_parser.py:253: master =
\* parse_master_block(...) and, in hikextractor.py, the version message
parse_master_block_call ==
    /\ pc = "parse_master"
    /\ LET r == parse_master_block(image)
       IN IF r.err # "none"
          THEN /\ err' = r.err /\ pc' = "raised"
               /\ UNCHANGED <<master, version_warned>>
          ELSE /\ master' = r.mb /\ pc' = "hbtree_begin" /\ UNCHANGED err
               /\ version_warned' = version_check(prog, r.mb.version)
    /\ UNCHANGED <<prog, image, offset_page, safe_count, entries, visited, warned>>
    /\ UNCHANGED carveVars
    /\ UNCHANGED <<opts, entrylist, seq, emitted, files>>
    /\ UNCHANGED <<filename, new_filename, count, sink>>
    /\ UNCHANGED guiVars

\* parse_hbtree up to the loop: the signature check and the first page
\* the check of the index signature left out
index_signature_ok_always(signature) == TRUE

index_signature_ok(signature) == signature = HIKBTREE_SIGNATURE

parse_hbtree_begin ==
    /\ pc = "hbtree_begin"
    /\ LET data == View(image)
           offset == master.offset_hibtree1
           signature == BytesOf(data, offset + 16, offset + 24)
           first == to_uint64(data, offset + 88)
       IN IF ~index_signature_ok(signature)
          THEN /\ err' = "Wrong HIKBTREE Signature" /\ pc' = "raised"
               /\ UNCHANGED offset_page
          ELSE IF first = StructError
          THEN /\ err' = "struct.error" /\ pc' = "raised"
               /\ UNCHANGED offset_page
          ELSE /\ offset_page' = first /\ pc' = "hbtree_page"
               /\ UNCHANGED err
    /\ UNCHANGED <<prog, image, master, safe_count, entries, visited, warned>>
    /\ UNCHANGED carveVars
    /\ UNCHANGED orchVars

\* the limit safe_count is compared with
safe_limit(p) == IF p = "cli" THEN CLI_SAFE_COUNT ELSE LIB_SAFE_COUNT

\* parse_hbtree: one iteration of the while loop (one page)
parse_hbtree_page ==
    /\ pc = "hbtree_page"
    /\ visited' = Append(visited, offset_page)
    /\ LET data == View(image)
           entry_count == to_uint32(data, offset_page + 16)
           next_page == to_uint64(data, offset_page + 32)
           first_entry == offset_page + FIRST_ENTRY
           got == IF entry_count = StructError THEN [raised |-> TRUE, list |-> <<>>]
                  ELSE page_entries(data, first_entry, 0, entry_count)
       IN IF entry_count = StructError \/ next_page = StructError \/ got.raised
          THEN /\ err' = "struct.error" /\ pc' = "raised"
               /\ UNCHANGED <<offset_page, safe_count, entries, warned>>
          ELSE /\ entries' = entries \o got.list
               /\ UNCHANGED err
               /\ IF next_page = END_OF_CHAIN
                  THEN /\ pc' = "hbtree_returned"
                       /\ UNCHANGED <<offset_page, safe_count, warned>>
                  ELSE /\ offset_page' = next_page
                       /\ safe_count' = safe_count + 1
                       /\ IF safe_count' > safe_limit(prog)
                          THEN pc' = "hbtree_returned" /\ warned' = (prog = "lib")
                          ELSE pc' = "hbtree_page" /\ warned' = warned
    /\ UNCHANGED <<prog, image, master>>
    /\ UNCHANGED carveVars
    /\ UNCHANGED orchVars

NextParse ==
    \/ parse_master_block_call
    \/ parse_hbtree_begin
    \/ parse_hbtree_page

SpecParse == InitParse /\ [][NextParse]_vars

(***************************************************************************)
(* Strings.                                                                *)
(*                                                                         *)
(* A Python str is kept as the sequence of its code points, as the byte    *)
(* strings above are.  Formatting is done digit by digit and the calendar  *)
(* fields of a timestamp are computed from its seconds (UTC, proleptic     *)
(* Gregorian calendar), so that the order of two formatted strings is the  *)
(* order Python's str comparison gives.                                    *)
(***************************************************************************)
RECURSIVE Dec(_)
\* str(n) for n >= 0
Dec(n) == IF n < 10 THEN <<48 + n>> ELSE Dec(n \div 10) \o <<48 + (n % 10)>>

\* f"{n:0wd}": at least w digits, zero-padded on the left
ZeroPad(n, w) ==
    LET d == Dec(n)
    IN IF Len(d) >= w THEN d ELSE [i \in 1..(w - Len(d)) |-> 48] \o d

\* the calendar date of day number z (days since 1970-01-01)
CivilFromDays(z) ==
    LET zz == z + 719468
        era == zz \div 146097
        doe == zz - era * 146097
        yoe == (doe - doe \div 1460 + doe \div 36524 - doe \div 146096) \div 365
        doy == doe - (365 * yoe + yoe \div 4 - yoe \div 100)
        mp == (5 * doy + 2) \div 153
        d == doy - (153 * mp + 2) \div 5 + 1
        m == IF mp < 10 THEN mp + 3 ELSE mp - 9
        y == yoe + era * 400 + (IF m <= 2 THEN 1 ELSE 0)
    IN [year |-> y, month |-> m, day |-> d]

\* the fields of datetime.fromtimestamp(t, tz=utc) that the formats use
DateTime(t) ==
    LET c == CivilFromDays(t \div 86400)
    IN [year |-> c.year, month |-> c.month, day |-> c.day,
        hour |-> (t % 86400) \div 3600, minute |-> (t % 3600) \div 60]

\* f"{dt:%Y%m%d%H%M}"
strftime_YmdHM(t) ==
    LET dt == DateTime(t)
    IN ZeroPad(dt.year, 4) \o ZeroPad(dt.month, 2) \o ZeroPad(dt.day, 2)
       \o ZeroPad(dt.hour, 2) \o ZeroPad(dt.minute, 2)

\* f"{dt:%Y-%m-%d-%H-%M}"
strftime_Y_m_d_H_M(t) ==
    LET dt == DateTime(t)
    IN ZeroPad(dt.year, 4) \o <<45>> \o ZeroPad(dt.month, 2) \o <<45>>
       \o ZeroPad(dt.day, 2) \o <<45>> \o ZeroPad(dt.hour, 2) \o <<45>>
       \o ZeroPad(dt.minute, 2)

\* a < b for two str (or two key tuples): the first differing position
\* decides, a proper prefix is smaller
StrLess(a, b) ==
    \E i \in 1..(Len(b)) :
        /\ i <= Len(a) + 1
        /\ \A j \in 1..(i - 1) : a[j] = b[j]
        /\ (i = Len(a) + 1 \/ a[i] < b[i])

\* sorted(list, key=..., reverse=reverse), keys[i] being the key of list[i]:
\* a stable sort; with reverse the keys descend and equal keys still keep
\* their original order
sorted(list, keys, reverse) ==
    LET n == Len(list)
        before(i, j) == IF reverse THEN StrLess(keys[j], keys[i])
                        ELSE StrLess(keys[i], keys[j])
        rank(i) == 1 + Cardinality({j \in 1..n : before(j, i)})
                     + Cardinality({j \in 1..(i - 1) : keys[j] = keys[i]})
    IN [r \in 1..n |-> list[CHOOSE i \in 1..n : rank(i) = r]]

(***************************************************************************)
(* The orchestrators.                                                      *)
(*                                                                         *)
(* hikextractor.py: export_all_videos parses the image (the actions of     *)
(* SpecParse), filters and sorts the entry list and runs the export loop.  *)
(* hikvision_parser.py: parse_metadata parses and sorts; the loop is the   *)
(* one of ParserWorker.run in hikextractor-gui.py, here run over the whole *)
(* list.  export_file is the environment of the loop: it leaves a file     *)
(* behind ("written"), leaves none ("nothing": an empty block, a failed    *)
(* ffmpeg) or raises ("raised": ffmpeg missing, destination not writable). *)
(***************************************************************************)
\* "CH-", "__", "seq", "__RECORDING", ".", "mp4", "h264", "00REC-"
STR_CH == <<67, 72, 45>>
STR_UU == <<95, 95>>
STR_SEQ == <<115, 101, 113>>
STR_RECORDING == <<95, 95, 82, 69, 67, 79, 82, 68, 73, 78, 71>>
STR_MP4 == <<109, 112, 52>>
STR_H264 == <<104, 50, 54, 52>>
STR_00REC == <<48, 48, 82, 69, 67, 45>>
\* the destination folder "out"
DEST_FOLDER == <<111, 117, 116>>

\* hikextractor.py:597-600 / hikvision_parser.py:259-262
sortkey(x) ==
    IF x.recording THEN STR_00REC \o ZeroPad(x.channel, 2)
    ELSE strftime_YmdHM(x.start_timestamp[1]) \o <<45>> \o ZeroPad(x.channel, 2)

\* hikextractor.py:594: key=lambda e: e.offset_datablock
offsetkey(e) == <<e.offset_datablock>>

\* the entry list sorted ascending by offset
physical_order_ascending(list) ==
    sorted(list, [i \in 1..Len(list) |-> offsetkey(list[i])], FALSE)

\* hikextractor.py:594: sorted(entrylist, key=..., reverse=True)
physical_order(list) ==
    sorted(list, [i \in 1..Len(list) |-> offsetkey(list[i])], TRUE)

\* hikextractor.py:601 / hikvision_parser.py:264: sorted(entrylist, key=sortkey)
time_order(list) ==
    sorted(list, [i \in 1..Len(list) |-> sortkey(list[i])], FALSE)

\* the filter that keeps every entry
channel_filter_none(list, channel) == list

\* hikextractor.py:588-589: the list comprehension over e.channel == channel
channel_filter(list, channel) ==
    IF channel = NoChannel THEN list
    ELSE SelectSeq(list, LAMBDA e : e.channel = channel)

\* hikextractor.py:603: ext
ext_of(raw) == IF raw THEN STR_H264 ELSE STR_MP4

\* seq advanced for completed entries only
next_seq_completed_only(physical, entry, n) ==
    IF physical /\ ~entry.recording THEN n + 1 ELSE n

\* hikextractor.py:612 and 620: seq += 1 in both branches under physical
next_seq(physical, entry, n) == IF physical THEN n + 1 ELSE n

\* hikextractor.py:609-623 / hikvision_parser.py:277-283: filename; n is seq
\* after the increment
export_filename(entry, physical, n, raw) ==
    LET ch == STR_CH \o ZeroPad(entry.channel, 2)
        e == <<46>> \o ext_of(raw)
    IN IF entry.recording
       THEN IF physical
            THEN ch \o STR_UU \o STR_SEQ \o ZeroPad(n, 6) \o STR_RECORDING \o e
            ELSE ch \o STR_RECORDING \o e
       ELSE IF physical
            THEN ch \o STR_UU \o STR_SEQ \o ZeroPad(n, 6) \o e
            ELSE ch \o STR_UU \o strftime_Y_m_d_H_M(entry.start_timestamp[1])
                 \o STR_UU \o strftime_Y_m_d_H_M(entry.end_timestamp[1]) \o e

\* os.path.join(dest_folder, filename) for a folder without trailing slash
path_join(folder, name) == folder \o <<47>> \o name

(***************************************************************************)
(* rename_file_if_exists.                                                  *)
(***************************************************************************)
\* s.rfind(c): the 0-based index of the last c in s, or -1
rfind(s, c) ==
    LET hits == {i \in 1..Len(s) : s[i] = c}
    IN IF hits = {} THEN -1 ELSE SetMax(hits) - 1

\* s[:r] and s[r:] with Python's reading of a negative r
PyUpTo(s, r) == SubSeq(s, 1, IF r >= 0 THEN Min(r, Len(s)) ELSE Max(0, Len(s) + r))
PyFrom(s, r) == SubSeq(s, (IF r >= 0 THEN Min(r, Len(s)) ELSE Max(0, Len(s) + r)) + 1, Len(s))

\* os.path.exists never true
file_exists_never(path, existing) == FALSE

\* os.path.exists(path) in a directory whose paths are existing
file_exists(path, existing) == path \in existing

\* hikextractor.py:533: filename[:filename.rfind(".")] + f"_{count}" +
\* filename[filename.rfind("."):]
renamed(f, k) ==
    PyUpTo(f, rfind(f, 46)) \o <<95>> \o Dec(k) \o PyFrom(f, rfind(f, 46))

\* os.path.splitext(p): the extension starts at the last dot of the last
\* component, unless that component has nothing but dots before it
splitext(p) ==
    LET sepIndex == rfind(p, 47)
        dotIndex == rfind(p, 46)
    IN IF /\ dotIndex > sepIndex
          /\ \E k \in (sepIndex + 1)..(dotIndex - 1) : p[k + 1] # 46
       THEN [base |-> PyUpTo(p, dotIndex), ext |-> PyFrom(p, dotIndex)]
       ELSE [base |-> p, ext |-> <<>>]

\* hikvision_parser.py:193-194: f"{base}_{count}{ext}"
lib_renamed(f, k) ==
    splitext(f).base \o <<95>> \o Dec(k) \o splitext(f).ext

\* the candidate the loop body builds
candidate(p, f, k) == IF p = "cli" THEN renamed(f, k) ELSE lib_renamed(f, k)

\* hikextractor.py:529-535 / hikvision_parser.py:189-196: the value the
\* whole function returns in a directory whose paths are existing
rename_file_if_exists(p, f, existing) ==
    IF ~file_exists(f, existing) THEN f
    ELSE candidate(p, f,
            CHOOSE k \in 1..(Cardinality(existing) + 1) :
                /\ ~file_exists(candidate(p, f, k), existing)
                /\ \A j \in 1..(k - 1) : file_exists(candidate(p, f, j), existing))

\* the paths handed to rename_file_if_exists: os.path.join of a destination
\* folder and a file name built by the export loop
SampleEntries ==
    {[channel |-> 7, has_footage |-> TRUE, recording |-> FALSE,
      start_timestamp |-> <<1700000000>>, end_timestamp |-> <<1700000060>>,
      offset_datablock |-> 65536],
     [channel |-> 100, has_footage |-> TRUE, recording |-> TRUE,
      start_timestamp |-> <<>>, end_timestamp |-> <<>>,
      offset_datablock |-> 1048576]}
\* "out", "o.d", "./o"
DestFolders == {DEST_FOLDER, <<111, 46, 100>>, <<46, 47, 111>>}
RenameInputs ==
    {path_join(d, export_filename(e, ph, 1, raw)) :
        d \in DestFolders, e \in SampleEntries, ph \in BOOLEAN, raw \in BOOLEAN}

\* the name with _k put before the dot of the extension
InsertBeforeExt(f, k) ==
    LET d == SetMax({i \in 1..Len(f) : f[i] = 46})
    IN SubSeq(f, 1, d - 1) \o <<95>> \o Dec(k) \o SubSeq(f, d, Len(f))

\* the directories: any of the path itself, its first three renamings and an
\* unrelated file
RenameDirs(f) ==
    SUBSET {f, InsertBeforeExt(f, 1), InsertBeforeExt(f, 2), InsertBeforeExt(f, 3),
            path_join(DEST_FOLDER, STR_MP4)}

InitRename ==
    /\ prog \in {"cli", "lib"}
    /\ pc = "rename_loop"
    /\ filename \in RenameInputs
    /\ files \in RenameDirs(filename)
    /\ new_filename = filename
    /\ count = 1
    /\ CarveIdle
    /\ ParseIdle
    /\ opts = NoOpts
    /\ version_warned = FALSE
    /\ entrylist = <<>>
    /\ seq = 0
    /\ emitted = <<>>
    /\ sink = "none"
    /\ GuiIdle

\* one test of the while condition and, when it holds, one loop body
rename_file_if_exists_iter ==
    /\ pc = "rename_loop"
    /\ IF file_exists(new_filename, files)
       THEN /\ new_filename' = candidate(prog, filename, count)
            /\ count' = count + 1
            /\ pc' = pc
       ELSE /\ pc' = "rename_returned"
            /\ UNCHANGED <<new_filename, count>>
    /\ UNCHANGED <<prog, filename, sink>>
    /\ UNCHANGED carveVars
    /\ UNCHANGED parseVars
    /\ UNCHANGED exportVars
    /\ UNCHANGED guiVars

NextRename == rename_file_if_exists_iter

SpecRename == InitRename /\ [][NextRename]_vars

(***************************************************************************)
(* The export loops (SpecExport).                                          *)
(***************************************************************************)
\* slots of the export images: two channels >= 100 and one below within one
\* minute, a later minute, a recording slot
SlotCh100 == [tombstone |-> 0, channel |-> 100, dt1 |-> 1700000010,
              dt2 |-> 1700000070, off |-> 131072]
SlotCh99 == [tombstone |-> 0, channel |-> 99, dt1 |-> 1700000015,
             dt2 |-> 1700000075, off |-> 196608]
SlotLater == [tombstone |-> 0, channel |-> 2, dt1 |-> 1700000100,
              dt2 |-> 1700000160, off |-> 262144]
ExportSlotKinds == {SlotDone, SlotRecording, SlotCh100, SlotCh99, SlotLater}

ExportSlotSeqs == UNION {[1..n -> ExportSlotKinds] : n \in 0..MaxSlots}

\* one page of live slots under a good header with either version; a bad
\* index signature; a bad master signature
ExportImages ==
    {MkImage(BIG_IMAGE, SIGNATURE, ver, INDEX_AT, HIKBTREE_SIGNATURE, PAGE1,
             PAGE1 :> Page(Len(sl), END_OF_CHAIN, sl)) :
        ver \in {SUPPORTED_VERSION, OtherVersion}, sl \in ExportSlotSeqs}
    \cup
    {MkImage(BIG_IMAGE, sig, ver, INDEX_AT, BadIndexSignature, PAGE1,
             PAGE1 :> Page(MaxSlots, END_OF_CHAIN, PlainSlots)) :
        ver \in {SUPPORTED_VERSION, OtherVersion}, sig \in {SIGNATURE, BadSignature}}

\* hikextractor.py:542-549: the arguments of export_all_videos, in every
\* combination a caller can pass; the library has no list, master-only,
\* channel or physical option
ExportOpts(p) ==
    IF p = "cli"
    THEN [list_only : BOOLEAN, master_only : BOOLEAN, raw : BOOLEAN,
          channel : {NoChannel, 7}, physical : BOOLEAN]
    ELSE [list_only : {FALSE}, master_only : {FALSE}, raw : BOOLEAN,
          channel : {NoChannel}, physical : {FALSE}]

InitExport ==
    /\ prog \in {"cli", "lib"}
    /\ pc = "parse_master"
    /\ image \in ExportImages
    /\ opts \in ExportOpts(prog)
    /\ master = NoMaster
    /\ offset_page = 0
    /\ safe_count = 0
    /\ entries = <<>>
    /\ visited = <<>>
    /\ warned = FALSE
    /\ err = "none"
    /\ version_warned = FALSE
    /\ entrylist = <<>>
    /\ seq = 0
    /\ emitted = <<>>
    /\ files = {}
    /\ RenameIdle
    /\ CarveIdle
    /\ sink = "none"
    /\ GuiIdle

\* what one call of export_file can do to the destination folder
ExportOutcomes(p, raw) ==
    IF p = "lib" /\ raw THEN {"written", "raised"}
    ELSE {"written", "nothing", "raised"}

\* hikextractor.py:571-573: except Exception: print(e, file=sys.stderr); exit(1)
export_all_videos_except ==
    /\ pc = "raised"
    /\ prog = "cli"
    /\ pc' = "exit_1"
    /\ UNCHANGED <<prog, sink>>
    /\ UNCHANGED carveVars
    /\ UNCHANGED parseVars
    /\ UNCHANGED exportVars
    /\ UNCHANGED renameVars
    /\ UNCHANGED guiVars

\* hikextractor.py:575-606: the master_only return, the channel filter, the
\* ordering, seq = 0
export_all_videos_order ==
    /\ pc = "hbtree_returned"
    /\ prog = "cli"
    /\ IF opts.master_only
       THEN /\ pc' = "returned"
            /\ UNCHANGED <<entrylist, seq>>
       ELSE /\ entrylist' =
                 LET kept == channel_filter(entries, opts.channel)
                 IN IF opts.physical THEN physical_order(kept) ELSE time_order(kept)
            /\ seq' = 0
            /\ pc' = IF entrylist' = <<>> THEN "returned" ELSE "export_loop"
    /\ UNCHANGED <<prog, sink, opts, version_warned, emitted, files>>
    /\ UNCHANGED carveVars
    /\ UNCHANGED parseVars
    /\ UNCHANGED renameVars
    /\ UNCHANGED guiVars

\* export_file called in list runs too
calls_export_file_always(list_only) == TRUE

\* hikextractor.py:624-647: "if list_only:" prints; the else branch calls
\* rename_file_if_exists and export_file
calls_export_file(list_only) == ~list_only

\* hikextractor.py:608-647: one iteration of "for entry in entrylist".  An
\* exception of export_file is not caught and leaves export_all_videos.
export_all_videos_segment ==
    /\ pc = "export_loop"
    /\ prog = "cli"
    /\ LET i == Len(emitted) + 1
           entry == entrylist[i]
           name == export_filename(entry, opts.physical, seq', opts.raw)
           after == IF i = Len(entrylist) THEN "returned" ELSE "export_loop"
       IN /\ seq' = next_seq(opts.physical, entry, seq)
          /\ IF ~calls_export_file(opts.list_only)
             THEN /\ emitted' = Append(emitted,
                       [entry |-> entry, name |-> name, path |-> <<>>,
                        outcome |-> "listed"])
                  /\ pc' = after
                  /\ UNCHANGED files
             ELSE \E out \in ExportOutcomes(prog, opts.raw) :
                  LET path == rename_file_if_exists(prog,
                                  path_join(DEST_FOLDER, name), files)
                  IN /\ emitted' = Append(emitted,
                          [entry |-> entry, name |-> name, path |-> path,
                           outcome |-> out])
                     /\ files' = IF out = "written" THEN files \cup {path} ELSE files
                     /\ pc' = IF out = "raised" THEN "propagated" ELSE after
    /\ UNCHANGED <<prog, sink, opts, version_warned, entrylist>>
    /\ UNCHANGED carveVars
    /\ UNCHANGED parseVars
    /\ UNCHANGED renameVars
    /\ UNCHANGED guiVars

\* hikextractor-gui.py:71-73: an exception of parse_metadata ends run()
\* through "except Exception" (the error signal)
ParserWorker_run_parse_except ==
    /\ pc = "raised"
    /\ prog = "lib"
    /\ pc' = "worker_error"
    /\ UNCHANGED <<prog, sink>>
    /\ UNCHANGED carveVars
    /\ UNCHANGED parseVars
    /\ UNCHANGED exportVars
    /\ UNCHANGED renameVars
    /\ UNCHANGED guiVars

\* hikvision_parser.py:258-269: parse_metadata sorts and returns; the export
\* worker is then started on the rows of that list
parse_metadata_sort ==
    /\ pc = "hbtree_returned"
    /\ prog = "lib"
    /\ entrylist' = time_order(entries)
    /\ pc' = IF entrylist' = <<>> THEN "returned" ELSE "export_loop"
    /\ UNCHANGED <<prog, sink, opts, version_warned, seq, emitted, files>>
    /\ UNCHANGED carveVars
    /\ UNCHANGED parseVars
    /\ UNCHANGED renameVars
    /\ UNCHANGED guiVars

\* hikextractor-gui.py:61-73 with hikvision_parser.py:271-299: one iteration
\* of "for i, entry in enumerate(self.entry_list)".  A recording entry is
\* skipped; an exception of export_video_block is caught outside the loop
\* and ends it.
ParserWorker_run_segment ==
    /\ pc = "export_loop"
    /\ prog = "lib"
    /\ LET i == Len(emitted) + 1
           entry == entrylist[i]
           name == export_filename(entry, FALSE, seq, opts.raw)
           after == IF i = Len(entrylist) THEN "returned" ELSE "export_loop"
       IN IF entry.recording
          THEN /\ emitted' = Append(emitted,
                    [entry |-> entry, name |-> <<>>, path |-> <<>>,
                     outcome |-> "skipped"])
               /\ pc' = after
               /\ UNCHANGED files
          ELSE \E out \in ExportOutcomes(prog, opts.raw) :
               LET path == rename_file_if_exists(prog,
                               path_join(DEST_FOLDER, name), files)
               IN /\ emitted' = Append(emitted,
                       [entry |-> entry, name |-> name, path |-> path,
                        outcome |-> out])
                  /\ files' = IF out = "written" THEN files \cup {path} ELSE files
                  /\ pc' = IF out = "raised" THEN "worker_error" ELSE after
    /\ UNCHANGED <<prog, sink, opts, version_warned, entrylist, seq>>
    /\ UNCHANGED carveVars
    /\ UNCHANGED parseVars
    /\ UNCHANGED renameVars
    /\ UNCHANGED guiVars

NextExport ==
    \/ parse_master_block_call
    \/ parse_hbtree_begin
    \/ parse_hbtree_page
    \/ export_all_videos_except
    \/ export_all_videos_order
    \/ export_all_videos_segment
    \/ ParserWorker_run_parse_except
    \/ parse_metadata_sort
    \/ ParserWorker_run_segment

SpecExport == InitExport /\ [][NextExport]_vars

(***************************************************************************)
(* export_file of hikvision_parser.py (SpecSink).                          *)
(*                                                                         *)
(* The sink is the stdin pipe of an ffmpeg child or the output file; the   *)
(* carver of SpecCarve runs between its opening and its closing.  Only     *)
(* outfile.write is guarded inside the carver: anything else that raises   *)
(* there (MemoryError on the copy find_in_bytes makes of up to 120 KiB)    *)
(* leaves the carver and export_file as an exception.                      *)
(***************************************************************************)
\* "out/CH-07__RECORDING.mp4"
SinkPath == path_join(DEST_FOLDER, STR_CH \o ZeroPad(7, 2) \o STR_RECORDING \o <<46>> \o STR_MP4)

InitSink ==
    /\ prog = "lib"
    /\ pc = "export_file"
    /\ datablock \in DataBlocks
    /\ start_offset = -1
    /\ end_offset = -1
    /\ writes = <<>>
    /\ ret = "none"
    /\ ParseIdle
    /\ opts \in {[NoOpts EXCEPT !.raw = r] : r \in BOOLEAN}
    /\ version_warned = FALSE
    /\ entrylist = <<>>
    /\ seq = 0
    /\ emitted = <<>>
    /\ files = {}
    /\ filename = SinkPath
    /\ new_filename = <<>>
    /\ count = 0
    /\ sink = "none"
    /\ GuiIdle

\* hikvision_parser.py:201-226: the ffmpeg -h probe, then Popen(..., stdin=
\* PIPE) or open(filename, 'wb'); open may raise (the folder is not writable)
export_file_open ==
    /\ pc = "export_file"
    /\ \E ffmpeg_works \in BOOLEAN, opened \in BOOLEAN :
        IF ~opts.raw /\ ffmpeg_works
        THEN /\ sink' = "pipe_open"
             /\ pc' = "carve_start"
             /\ UNCHANGED files
        ELSE IF opened
        THEN /\ sink' = "file_open"
             /\ pc' = "carve_start"
             /\ files' = files \cup {filename}
        ELSE /\ pc' = "export_file_raised"
             /\ UNCHANGED <<sink, files>>
    /\ UNCHANGED <<prog, opts, version_warned, entrylist, seq, emitted>>
    /\ UNCHANGED renameVars
    /\ UNCHANGED carveVars
    /\ UNCHANGED parseVars
    /\ UNCHANGED guiVars

\* an exception raised inside export_footage_from_block outside the guarded
\* write.  hikvision_parser.py:229-230: "with open(...) as out" closes the
\* file while the exception passes; 211-226: nothing closes process.stdin.
export_footage_from_block_fault ==
    /\ pc \in {"carve_start", "carve_loop"}
    /\ pc' = "export_file_raised"
    /\ sink' = IF sink = "file_open" THEN "file_closed" ELSE sink
    /\ UNCHANGED <<prog, opts, version_warned, entrylist, seq, emitted, files>>
    /\ UNCHANGED renameVars
    /\ UNCHANGED carveVars
    /\ UNCHANGED parseVars
    /\ UNCHANGED guiVars

\* hikvision_parser.py:226: process.communicate() closes stdin and waits for
\* ffmpeg, which has or has not produced the file; 229: the end of the with
\* block closes the file
export_file_close ==
    /\ pc = "carve_done"
    /\ pc' = "export_file_returned"
    /\ IF sink = "pipe_open"
       THEN /\ sink' = "pipe_closed"
            /\ \E made \in BOOLEAN :
                   files' = IF made THEN files \cup {filename} ELSE files
       ELSE /\ sink' = "file_closed"
            /\ UNCHANGED files
    /\ UNCHANGED <<prog, opts, version_warned, entrylist, seq, emitted>>
    /\ UNCHANGED renameVars
    /\ UNCHANGED carveVars
    /\ UNCHANGED parseVars
    /\ UNCHANGED guiVars

NextSink ==
    \/ export_file_open
    \/ export_footage_from_block_start
    \/ lib_export_footage_from_block_iter
    \/ export_footage_from_block_fault
    \/ export_file_close

SpecSink == InitSink /\ [][NextSink]_vars

(***************************************************************************)
(* hikextractor-gui.py: ParserWorker.run (SpecWorker) and MainWindow       *)
(* (SpecGui).                                                              *)
(*                                                                         *)
(* A worker runs on a thread of the pool; the signals it emits reach the   *)
(* slots of the window through the event queue of the main thread, in the  *)
(* order of emission.  parse_metadata and export_video_block are taken by  *)
(* their results here: SpecParse, SpecExport and SpecSink model them.      *)
(***************************************************************************)
\* the bounds on the objects the window may create
MaxParsers == 2
MaxWorkers == 2

GuiEntryDone == [channel |-> 7, has_footage |-> TRUE, recording |-> FALSE,
                 start_timestamp |-> <<1700000000>>, end_timestamp |-> <<1700000060>>,
                 offset_datablock |-> 65536]
GuiEntryRecording == [channel |-> 7, has_footage |-> TRUE, recording |-> TRUE,
                      start_timestamp |-> <<>>, end_timestamp |-> <<>>,
                      offset_datablock |-> 1048576]
GuiEntryLater == [channel |-> 2, has_footage |-> TRUE, recording |-> FALSE,
                  start_timestamp |-> <<1700000100>>, end_timestamp |-> <<1700000160>>,
                  offset_datablock |-> 262144]

\* the disk images a user can open: one with two segments, one with one, one
\* that is not a Hikvision image
GuiFiles == {"a.dd", "b.dd", "bad.dd"}

\* hikvision_parser.py:242-269: parse_metadata raises, or returns the list
\* sorted by sortkey (the recording entry first: "00REC-07" < "202311...")
parse_metadata(source_path) ==
    IF source_path = "a.dd"
    THEN [raised |-> FALSE, entry_list |-> <<GuiEntryRecording, GuiEntryDone>>]
    ELSE IF source_path = "b.dd"
    THEN [raised |-> FALSE, entry_list |-> <<GuiEntryLater>>]
    ELSE [raised |-> TRUE, entry_list |-> <<>>]

\* hikvision_parser.py:236-240: HikvisionParser.__init__
HikvisionParser(source_path) ==
    [source_path |-> source_path, master_block |-> FALSE, entry_list |-> <<>>]

\* hikextractor-gui.py:223-225: the signals start_parsing connects
ParseConnections == {"result_metadata", "error", "finished"}
\* hikextractor-gui.py:295-298: the signals start_export_selected connects
ExportConnections == {"export_started", "export_progress", "error", "finished"}

\* hikextractor-gui.py:40-46: ParserWorker.__init__; entries is the local
\* variable of run, connected the signals that have a slot, handled says
\* that worker_finished has run for this worker
ParserWorker(parser, dest_folder, raw, entry_list, connected) ==
    [parser |-> parser, dest_folder |-> dest_folder, raw |-> raw,
     entry_list |-> entry_list, entries |-> <<>>, i |-> 0, pc |-> "run",
     signals |-> <<>>, connected |-> connected, handled |-> FALSE]

\* signal.emit on the worker's thread: the history of the worker
emit(worker, signal) == [worker EXCEPT !.signals = Append(@, signal)]

\* the same emit seen from the main thread: a connected signal is queued
post(w, signal, payload) ==
    IF signal \in workers[w].connected
    THEN Append(events, [signal |-> signal, worker |-> w, payload |-> payload])
    ELSE events

\* what the GUI leaves alone
GuiFrame ==
    /\ UNCHANGED <<prog, pc>>
    /\ UNCHANGED carveVars
    /\ UNCHANGED parseVars
    /\ UNCHANGED <<opts, version_warned, entrylist, seq, emitted>>
    /\ UNCHANGED renameVars
    /\ UNCHANGED sink

\* the process runs: no unhandled exception has reached the event loop
Running == window.fault = "none"

\* hikextractor-gui.py:51-52: "if not self.entry_list:" parse_metadata()
ParserWorker_run_parse(w) ==
    /\ Running
    /\ workers[w].pc = "run"
    /\ LET p == workers[w].parser
           r == parse_metadata(parsers[p].source_path)
       IN IF workers[w].entry_list # <<>>
          THEN /\ workers' = [workers EXCEPT ![w].pc = "export_begin"]
               /\ UNCHANGED parsers
          ELSE IF r.raised
          THEN /\ workers' = [workers EXCEPT ![w].pc = "except"]
               /\ UNCHANGED parsers
          ELSE /\ workers' = [workers EXCEPT ![w].pc = "parsed",
                                             ![w].entries = r.entry_list]
               /\ parsers' = [parsers EXCEPT ![p].master_block = TRUE,
                                             ![p].entry_list = r.entry_list]
    /\ UNCHANGED <<window, events, files>>
    /\ GuiFrame

\* hikextractor-gui.py:53-54: result_metadata.emit; self.entry_list = entries
ParserWorker_run_result(w) ==
    /\ Running
    /\ workers[w].pc = "parsed"
    /\ workers' = [workers EXCEPT
                      ![w] = [emit(@, "result_metadata") EXCEPT
                                 !.entry_list = workers[w].entries,
                                 !.pc = "export_begin"]]
    /\ events' = post(w, "result_metadata", workers[w].entries)
    /\ UNCHANGED <<window, parsers, files>>
    /\ GuiFrame

\* hikextractor-gui.py:57-59: "if total_entries > 0 and self.dest_folder:"
ParserWorker_run_export_started(w) ==
    /\ Running
    /\ workers[w].pc = "export_begin"
    /\ IF Len(workers[w].entry_list) > 0 /\ workers[w].dest_folder
       THEN /\ workers' = [workers EXCEPT
                             ![w] = [emit(@, "export_started") EXCEPT
                                        !.pc = "export_loop"]]
            /\ events' = post(w, "export_started", Len(workers[w].entry_list))
       ELSE /\ workers' = [workers EXCEPT ![w].pc = "finally"]
            /\ UNCHANGED events
    /\ UNCHANGED <<window, parsers, files>>
    /\ GuiFrame

\* an except clause inside the loop: the next entry follows the error
pc_after_error_in_loop(i, n) == IF i = n THEN "finally" ELSE "export_loop"

\* hikextractor-gui.py:50-75: the try statement encloses the for loop, so the
\* except clause is left for the finally clause whatever the iteration
pc_after_error(i, n) == "finally"

\* hikextractor-gui.py:61-69 with hikvision_parser.py:271-299: one iteration
\* of "for i, entry in enumerate(self.entry_list)"
ParserWorker_run_entry(w) ==
    /\ Running
    /\ workers[w].pc = "export_loop"
    /\ LET i == workers[w].i + 1
           n == Len(workers[w].entry_list)
           entry == workers[w].entry_list[i]
           after == IF i = n THEN "finally" ELSE "export_loop"
           name == export_filename(entry, FALSE, 0, workers[w].raw)
           path == rename_file_if_exists("lib", path_join(DEST_FOLDER, name), files)
           progress == [emit(workers[w], "export_progress") EXCEPT !.i = i, !.pc = after]
           raised == [workers[w] EXCEPT !.i = i, !.pc = "except"]
       IN IF entry.recording
          THEN /\ workers' = [workers EXCEPT ![w] = progress]
               /\ events' = post(w, "export_progress", i)
               /\ UNCHANGED files
          ELSE IF ~parsers[workers[w].parser].master_block
          THEN /\ workers' = [workers EXCEPT ![w] = raised]
               /\ UNCHANGED <<events, files>>
          ELSE \E out \in ExportOutcomes("lib", workers[w].raw) :
               IF out = "raised"
               THEN /\ workers' = [workers EXCEPT ![w] = raised]
                    /\ UNCHANGED <<events, files>>
               ELSE /\ workers' = [workers EXCEPT ![w] = progress]
                    /\ events' = post(w, "export_progress", i)
                    /\ files' = IF out = "written" THEN files \cup {path} ELSE files
    /\ UNCHANGED <<window, parsers>>
    /\ GuiFrame

\* hikextractor-gui.py:71-73: "except Exception as e:" error.emit
ParserWorker_run_except(w) ==
    /\ Running
    /\ workers[w].pc = "except"
    /\ workers' = [workers EXCEPT
                      ![w] = [emit(@, "error") EXCEPT
                                 !.pc = pc_after_error(workers[w].i,
                                                       Len(workers[w].entry_list))]]
    /\ events' = post(w, "error", 0)
    /\ UNCHANGED <<window, parsers, files>>
    /\ GuiFrame

\* hikextractor-gui.py:74-75: "finally:" finished.emit
ParserWorker_run_finally(w) ==
    /\ Running
    /\ workers[w].pc = "finally"
    /\ workers' = [workers EXCEPT ![w] = [emit(@, "finished") EXCEPT !.pc = "done"]]
    /\ events' = post(w, "finished", 0)
    /\ UNCHANGED <<window, parsers, files>>
    /\ GuiFrame

\* one step of one worker on its thread
ParserWorker_run ==
    \E w \in 1..Len(workers) :
        \/ ParserWorker_run_parse(w)
        \/ ParserWorker_run_result(w)
        \/ ParserWorker_run_export_started(w)
        \/ ParserWorker_run_entry(w)
        \/ ParserWorker_run_except(w)
        \/ ParserWorker_run_finally(w)

\* the main thread takes the next queued signal
Delivered(signal) ==
    /\ Running
    /\ events # <<>>
    /\ Head(events).signal = signal
    /\ events' = Tail(events)

\* hikextractor-gui.py:228-267: the table is filled from the list the signal
\* carries
parsing_complete ==
    /\ Delivered("result_metadata")
    /\ window' = [window EXCEPT !.table = Head(events).payload,
                                !.btn_export_selected = TRUE]
    /\ UNCHANGED <<parsers, workers, files>>
    /\ GuiFrame

\* hikextractor-gui.py:301-305: the progress bar
export_started ==
    /\ Delivered("export_started")
    /\ UNCHANGED <<window, parsers, workers, files>>
    /\ GuiFrame

\* hikextractor-gui.py:307-310: the progress bar and the status bar
export_progress ==
    /\ Delivered("export_progress")
    /\ UNCHANGED <<window, parsers, workers, files>>
    /\ GuiFrame

\* hikextractor-gui.py:312-320: the message box
worker_error ==
    /\ Delivered("error")
    /\ UNCHANGED <<window, parsers, workers, files>>
    /\ GuiFrame

\* hikextractor-gui.py:322-335
worker_finished ==
    /\ Delivered("finished")
    /\ window' = [window EXCEPT
                     !.btn_parse = TRUE,
                     !.btn_export_selected =
                         IF window.current_parser # 0
                            /\ parsers[window.current_parser].entry_list # <<>>
                         THEN TRUE ELSE @]
    /\ workers' = [workers EXCEPT ![Head(events).worker].handled = TRUE]
    /\ UNCHANGED <<parsers, files>>
    /\ GuiFrame

\* the parser objects a worker can be given: fresh, or after a parse
WorkerParsers ==
    {HikvisionParser(f) : f \in GuiFiles}
    \cup {[source_path |-> f, master_block |-> TRUE,
           entry_list |-> parse_metadata(f).entry_list] : f \in {"a.dd", "b.dd"}}

\* the lists a worker can be given
WorkerLists ==
    {<<>>, <<GuiEntryDone>>, <<GuiEntryRecording>>, <<GuiEntryLater, GuiEntryDone>>,
     <<GuiEntryRecording, GuiEntryDone>>, <<GuiEntryDone, GuiEntryDone>>}

InitWorker ==
    /\ prog = "lib"
    /\ pc = "gui"
    /\ CarveIdle
    /\ ParseIdle
    /\ ExportIdle
    /\ RenameIdle
    /\ sink = "none"
    /\ window = [NoWindow EXCEPT !.current_parser = 1]
    /\ \E parser \in WorkerParsers : parsers = <<parser>>
    /\ \E dest_folder \in BOOLEAN, raw \in BOOLEAN, entry_list \in WorkerLists,
          connected \in {ParseConnections, ExportConnections} :
            workers = <<ParserWorker(1, dest_folder, raw, entry_list, connected)>>
    /\ events = <<>>

NextWorker ==
    \/ \E w \in 1..Len(workers) : ParserWorker_run_parse(w)
    \/ \E w \in 1..Len(workers) : ParserWorker_run_result(w)
    \/ \E w \in 1..Len(workers) : ParserWorker_run_export_started(w)
    \/ \E w \in 1..Len(workers) : ParserWorker_run_entry(w)
    \/ \E w \in 1..Len(workers) : ParserWorker_run_except(w)
    \/ \E w \in 1..Len(workers) : ParserWorker_run_finally(w)
    \/ parsing_complete
    \/ export_started
    \/ export_progress
    \/ worker_error
    \/ worker_finished

SpecWorker == InitWorker /\ [][NextWorker]_vars

\* QThreadPool.start: a thread of the pool runs the worker to its end
SpecWorkerFair == SpecWorker /\ WF_vars(ParserWorker_run)

(***************************************************************************)
(* MainWindow (SpecGui): the four buttons, the workers they start and the  *)
(* slots that run when the signals arrive.  A click on a disabled button   *)
(* does nothing, and neither does a slot that returns after a message box. *)
(***************************************************************************)
\* hikextractor-gui.py:179-191: "Open Disk Image", a file chosen in the dialog
select_input_file ==
    /\ Running
    /\ Len(parsers) < MaxParsers
    /\ \E chosen \in GuiFiles :
        /\ parsers' = Append(parsers, HikvisionParser(chosen))
        /\ window' = [window EXCEPT !.current_parser = Len(parsers) + 1,
                                    !.btn_parse = TRUE]
    /\ UNCHANGED <<workers, events, files>>
    /\ GuiFrame

\* hikextractor-gui.py:193-202: "Select Output Folder", a folder chosen
select_output_directory ==
    /\ Running
    /\ window' = [window EXCEPT !.output_path = TRUE]
    /\ UNCHANGED <<parsers, workers, events, files>>
    /\ GuiFrame

\* hikextractor-gui.py:204-226: "Parse"; the file chosen in the dialog exists
start_parsing ==
    /\ Running
    /\ window.btn_parse
    /\ Len(workers) < MaxWorkers
    /\ window' = [window EXCEPT !.btn_parse = FALSE,
                                !.btn_export_selected = FALSE,
                                !.table = <<>>]
    /\ workers' = Append(workers,
                         ParserWorker(window.current_parser, FALSE, FALSE, <<>>,
                                      ParseConnections))
    /\ UNCHANGED <<parsers, events, files>>
    /\ GuiFrame

\* sorted(list(set(...))) of hikextractor-gui.py:281
SortedRows(selected) ==
    CHOOSE s \in [1..Cardinality(selected) -> selected] :
        \A j \in 1..(Cardinality(selected) - 1) : s[j] < s[j + 1]

\* hikextractor-gui.py:269-299: "Export Selected" with rows of the table
\* selected.  Row r of the table is index r - 1 of the source; an index past
\* the end of current_parser.entry_list raises IndexError in the slot.
start_export_selected ==
    /\ Running
    /\ window.btn_export_selected
    /\ window.current_parser # 0
    /\ parsers[window.current_parser].entry_list # <<>>
    /\ window.output_path
    /\ \E selected \in (SUBSET (1..Len(window.table))) \ {{}}, raw \in BOOLEAN :
        LET selected_rows == SortedRows(selected)
            entry_list == parsers[window.current_parser].entry_list
        IN IF \E row \in selected : row > Len(entry_list)
           THEN /\ window' = [window EXCEPT !.fault = "IndexError"]
                /\ UNCHANGED workers
           ELSE /\ Len(workers) < MaxWorkers
                /\ window' = [window EXCEPT !.btn_export_selected = FALSE,
                                            !.btn_parse = FALSE]
                /\ workers' = Append(workers,
                       ParserWorker(window.current_parser, TRUE, raw,
                                    [j \in 1..Len(selected_rows) |->
                                        entry_list[selected_rows[j]]],
                                    ExportConnections))
    /\ UNCHANGED <<parsers, events, files>>
    /\ GuiFrame

InitGui ==
    /\ prog = "lib"
    /\ pc = "gui"
    /\ CarveIdle
    /\ ParseIdle
    /\ ExportIdle
    /\ RenameIdle
    /\ sink = "none"
    /\ GuiIdle

NextGui ==
    \/ select_input_file
    \/ select_output_directory
    \/ start_parsing
    \/ start_export_selected
    \/ NextWorker

SpecGui == InitGui /\ [][NextGui]_vars

(***************************************************************************)
(* Properties of the carver (SpecCarve).                                   *)
(***************************************************************************)
FirstCode == SetMin(datablock.codes)
SecondCode == SetMax(datablock.codes)

\* C1: when the block holds exactly two start codes, the first at k < 4096
\* and the second at k + m with 5 <= m <= 120*1024, and the sink takes every
\* write, the carver has written exactly the one slice D[k..k+m] when it
\* returns.
C1_RoundTripAsClaimed ==
    (/\ pc = "carve_done"
     /\ Cardinality(datablock.codes) = 2
     /\ FirstCode < FIRST_WINDOW
     /\ SecondCode - FirstCode >= 5
     /\ SecondCode - FirstCode <= CHUNK_SIZE
     /\ FailedWrites = {})
    => writes = <<[a |-> FirstCode, b |-> SecondCode, ok |-> TRUE]>>

\* the last start code the carver has found so far
LastFound == Max(start_offset, end_offset)

\* C2: no slice the sink received reaches past the last start code the
\* carver found: the region from that code to the end of the block is never
\* written.
C2_NoFinalPartialPacket ==
    \A i \in 1..Len(writes) : writes[i].ok => writes[i].b <= LastFound

\* one loop iteration: an end offset found lies at least 4 bytes after the
\* start offset, and a start offset the loop goes on with lies after the
\* one before
C23_Step ==
    (pc = "carve_loop") =>
        /\ (end_offset' >= 0) => (end_offset' >= start_offset + BA_NAL_LEN)
        /\ (pc' = "carve_loop") => (start_offset' > start_offset)

\* no write is empty, and there are no more writes than bytes in the block
C23_Writes ==
    /\ \A i \in 1..Len(writes) : writes[i].a < writes[i].b
    /\ Len(writes) <= datablock.len

\* C23: the carver returns on every block; until then each iteration moves
\* the start offset forward (an end offset found is at least start + 4), no
\* slice written is empty, and the iterations are bounded by the block
\* length.
C23_Terminates ==
    /\ [][C23_Step]_vars
    /\ []C23_Writes
    /\ <>(pc = "carve_done")

C23_Witness ==
    /\ pc = "carve_done"
    /\ Len(writes) = MaxCodes
    /\ prog = "lib"
    /\ \A i \in 1..(Len(writes) - 1) : writes[i].b = writes[i + 1].a

\* one iteration of the loop of hikextractor.py: after a write that the
\* sink took, the re-synchronisation search returns the end offset itself
C24_Step ==
    (prog = "cli" /\ pc = "carve_loop" /\ Len(writes') > Len(writes)
     /\ writes'[Len(writes')].ok) =>
        /\ start_offset' = end_offset'
        /\ pc' = "carve_loop"

\* the writes of hikextractor.py are contiguous from the first start code on
C24_Contiguous ==
    (prog = "cli" /\ writes # <<>>) =>
        /\ writes[1].a = FirstCode
        /\ \A i \in 1..(Len(writes) - 1) : writes[i].b = writes[i + 1].a
        /\ \A i \in 1..Len(writes) :
               writes[i].b \in datablock.codes /\ writes[i].a < writes[i].b

\* C24: in hikextractor.py the 512-byte search after a write returns the end
\* offset b itself, never a later offset and never not-found; the writes of
\* one run are therefore contiguous, and together they are the one range
\* from the first start code to the last end offset found.
C24_Resync ==
    /\ [][C24_Step]_vars
    /\ []C24_Contiguous

C24_Witness ==
    /\ prog = "cli"
    /\ pc = "carve_done"
    /\ ret = "Done"
    /\ Len(writes) = 2
    /\ writes[1].ok /\ writes[2].ok
    /\ writes[1].b = writes[2].a
    /\ writes[2].b = SecondCode
    /\ writes[2].b + BA_NAL_LEN = datablock.len

\* C9: a block without a start code (all zero or not) gets no write at all
\* and the carver leaves through its first return (Empty).
C9_EmptyBlock ==
    (datablock.codes = {} /\ pc # "carve_start")
    => (pc = "carve_done" /\ writes = <<>> /\ ret = "Empty")

C9_Witness ==
    /\ pc = "carve_done"
    /\ datablock = [len |-> 5000, codes |-> {}, fill |-> 0]
    /\ ret = "Empty"

\* C10: a write that raises is the last write attempted; the carver has then
\* returned (SinkClosed, nothing propagates), and every write before it was
\* a non-empty slice from one start code to another.
C10_SinkClosed ==
    \A i \in FailedWrites :
        /\ i = Len(writes)
        /\ pc = "carve_done"
        /\ ret = "SinkClosed"
        /\ \A j \in 1..(i - 1) :
            /\ writes[j].ok
            /\ writes[j].a \in datablock.codes
            /\ writes[j].b \in datablock.codes
            /\ writes[j].a < writes[j].b

C10_Witness ==
    /\ pc = "carve_done"
    /\ ret = "SinkClosed"
    /\ Len(writes) = 2
    /\ writes[1].ok
    /\ ~writes[2].ok

(***************************************************************************)
(* Properties of the parser (SpecParse).                                   *)
(***************************************************************************)
\* the slot offsets of page p that the on-disk format makes live, ascending
LiveSlotsOf(p) ==
    LET entry_count == CellAt(image, p + 16)
        live == {i \in 0..(entry_count - 1) :
                    CellAt(image, p + 96 + 48 * i + 8) = 0}
        RECURSIVE asc(_)
        asc(S) == IF S = {} THEN <<>>
                  ELSE <<p + 96 + 48 * SetMin(S)>> \o asc(S \ {SetMin(S)})
    IN asc(live)

\* one step of parse_hbtree, as the on-disk format prescribes it
C3_Step ==
    /\ (pc = "hbtree_begin") => (entries = <<>> /\ visited = <<>>)
    /\ (pc = "hbtree_begin" /\ pc' = "hbtree_page") =>
          /\ offset_page' = CellAt(image, master.offset_hibtree1 + 88)
          /\ entries' = <<>>
          /\ visited' = <<>>
    /\ (pc = "hbtree_page" /\ pc' \in {"hbtree_page", "hbtree_returned"}) =>
          LET slots == LiveSlotsOf(offset_page)
              n == Len(entries)
          IN /\ visited' = Append(visited, offset_page)
             /\ Len(entries') = n + Len(slots)
             /\ SubSeq(entries', 1, n) = entries
             /\ \A k \in 1..Len(slots) :
                   LET e == entries'[n + k]
                   IN /\ e.channel = CellAt(image, slots[k] + 17)
                      /\ e.offset_datablock = CellAt(image, slots[k] + 32)
                      /\ e.recording
                            = (CellAt(image, slots[k] + 24) = RECORDING_SENTINEL)
             /\ (pc' = "hbtree_page") =>
                   offset_page' = CellAt(image, offset_page + 32)

\* C3: parse_hbtree starts at the page the pointer at primary index + 0x58
\* names with an empty list and follows the next-pointers; each page it
\* reads appends to the list exactly one entry for each slot i < entry_count
\* whose u64 at slot + 0x08 is zero, in ascending slot order (slot i at
\* page + 0x60 + 48 * i) with that slot's channel, offset and recording
\* state, and appends nothing for the other slots.  The list returned is
\* therefore the live slots in chain order and, within a page, slot order.
C3_CatalogOrder == [][C3_Step]_vars

C3_Witness ==
    /\ pc = "hbtree_returned"
    /\ visited = <<PAGE2, PAGE1>>
    /\ Len(entries) = 2
    /\ CellAt(image, PAGE2 + 16) = 2
    /\ CellAt(image, PAGE2 + 96 + 8) # 0
    /\ entries[1].channel = 2
    /\ entries[2].channel = 7

\* no page was read twice
NoPageRepeated ==
    \A i, j \in 1..Len(visited) : (i # j) => (visited[i] # visited[j])

\* C22: parse_hbtree stops early only when more than 1000 pages were
\* visited: when it returns after reading at most 1000 pages, none of them
\* twice, the last page it read is the end of the chain (its next-pointer
\* is 0xFFFFFFFFFFFFFFFF), so every page of the chain was visited.
C22_AcyclicChainAsClaimed ==
    (pc = "hbtree_returned" /\ Len(visited) <= LIB_SAFE_COUNT /\ NoPageRepeated) =>
        CellAt(image, visited[Len(visited)] + 32) = END_OF_CHAIN

\* every page read so far points to itself
SelfLoopIndex ==
    /\ visited # <<>>
    /\ \A j \in 1..Len(visited) : CellAt(image, visited[j] + 32) = visited[j]

\* C4: on an index whose pages point to themselves parse_hbtree returns
\* after reading at most 1000 pages and has printed the page-limit warning.
C4_CyclicAsClaimed ==
    (pc = "hbtree_returned" /\ SelfLoopIndex)
    => (Len(visited) <= LIB_SAFE_COUNT /\ warned)

\* C5: every entry is either recording with both timestamps absent, or not
\* recording with both timestamps present and start <= end.
C5_TimestampsAsClaimed ==
    \A k \in 1..Len(entries) :
        LET e == entries[k]
        IN \/ e.recording /\ e.start_timestamp = <<>> /\ e.end_timestamp = <<>>
           \/ /\ ~e.recording
              /\ e.start_timestamp # <<>>
              /\ e.end_timestamp # <<>>
              /\ e.start_timestamp[1] <= e.end_timestamp[1]

\* C6: the data block of every entry lies inside the image:
\* offset_datablock + size_data_block <= len(image).
C6_BlockInsideImageAsClaimed ==
    \A k \in 1..Len(entries) :
        entries[k].offset_datablock + master.size_data_block <= image.len

\* the 18 bytes at 0x200 + 0x10 are the master signature
MasterMagicPresent ==
    /\ image.len >= MASTER_START + 34
    /\ MASTER_START + 16 \in DOMAIN image.strs
    /\ image.strs[MASTER_START + 16] = SIGNATURE

\* C7: once parse_master_block has run, an image without the signature at
\* 0x210 has raised "Wrong master block signature" and produced no
\* MasterBlock, and a MasterBlock that was produced carries the signature.
C7_MasterMagic ==
    (pc # "parse_master") =>
        /\ ~MasterMagicPresent =>
              (pc = "raised" /\ err = "Wrong master block signature"
               /\ master = NoMaster)
        /\ master # NoMaster => master.signature = SIGNATURE

C7_Witness ==
    /\ pc = "raised"
    /\ err = "Wrong master block signature"
    /\ image = ZeroImage

\* C18: for every image shorter than 0x360 bytes the master decode raises
\* the out-of-range error (struct.error): it neither returns a MasterBlock
\* nor reports a wrong signature.
C18_ShortImageAsClaimed ==
    (image.len < MASTER_END /\ pc # "parse_master") =>
        /\ master = NoMaster
        /\ err = "struct.error"

\* the 8 bytes at primary index + 0x10 are the index signature
IndexMagicPresent ==
    LET o == master.offset_hibtree1
    IN /\ o + 24 <= image.len
       /\ o + 16 \in DOMAIN image.strs
       /\ image.strs[o + 16] = HIKBTREE_SIGNATURE

\* C8: once parse_hbtree has made its signature check, an image without the
\* index signature has raised "Wrong HIKBTREE Signature" with no page read
\* and no entry produced.
C8_IndexMagic ==
    (master # NoMaster /\ pc # "hbtree_begin" /\ ~IndexMagicPresent) =>
        /\ pc = "raised"
        /\ err = "Wrong HIKBTREE Signature"
        /\ visited = <<>>
        /\ entries = <<>>

C8_Witness ==
    /\ pc = "raised"
    /\ err = "Wrong HIKBTREE Signature"
    /\ image.len = BIG_IMAGE
    /\ master.offset_hibtree1 = INDEX_AT
    /\ image.strs[INDEX_AT + 16] = BadIndexSignature

(***************************************************************************)
(* Properties of the orchestrators (SpecExport).                           *)
(***************************************************************************)
\* the start time of a completed entry truncated to the minute
StartMinute(e) == e.start_timestamp[1] \div 60

\* (minute, channel) of a is not after that of b
MinuteChannelLeq(a, b) ==
    \/ StartMinute(a) < StartMinute(b)
    \/ StartMinute(a) = StartMinute(b) /\ a.channel <= b.channel

\* C11: under time ordering every recording entry is listed before every
\* completed entry, and the completed entries ascend by (start time
\* truncated to the minute, channel id), for channel ids 0..255.
C11_TimeOrderAsClaimed ==
    (~opts.physical) =>
        \A i, j \in 1..Len(entrylist) :
            (i < j) =>
                /\ entrylist[j].recording => entrylist[i].recording
                /\ (~entrylist[i].recording /\ ~entrylist[j].recording)
                       => MinuteChannelLeq(entrylist[i], entrylist[j])

\* C12 as stated: under physical ordering the offsets of consecutive entries
\* of the emitted list are strictly decreasing.
C12_StrictlyDecreasingAsClaimed ==
    opts.physical =>
        \A i \in 1..(Len(entrylist) - 1) :
            entrylist[i].offset_datablock > entrylist[i + 1].offset_datablock

\* C12: under physical ordering the offsets of consecutive entries of the
\* emitted list never increase (entries of equal offset are adjacent), and
\* the segments are emitted in the order of that list.
C12_PhysicalOrder ==
    opts.physical =>
        /\ \A i \in 1..(Len(entrylist) - 1) :
               entrylist[i].offset_datablock >= entrylist[i + 1].offset_datablock
        /\ \A i \in 1..Len(emitted) : emitted[i].entry = entrylist[i]
        /\ Len(entrylist) <= Len(entries)

C12_Witness ==
    /\ opts.physical
    /\ pc = "returned"
    /\ Len(entries) = 2
    /\ entries[1].offset_datablock < entries[2].offset_datablock
    /\ Len(emitted) = 2
    /\ emitted[1].entry = entries[2]
    /\ emitted[2].entry = entries[1]

\* C13: with master_only the run never reads an index page, and an image
\* whose master block decodes ends successfully whatever its index
\* signature is.
C13_MasterOnlyAsClaimed ==
    opts.master_only =>
        /\ visited = <<>>
        /\ (master # NoMaster) => pc \notin {"raised", "exit_1"}

\* C14: a failure of one segment does not end the export loop: when the run
\* is over every entry of the list has been attempted.
C14_LoopContinuesAsClaimed ==
    (pc \in {"returned", "propagated", "worker_error"}) =>
        (\A i \in 1..Len(entrylist) : i <= Len(emitted))

\* the master block of the image carries a version other than HIK.2011.03.08
UnknownVersion ==
    /\ MasterMagicPresent
    /\ image.strs[MASTER_START + 48] # SUPPORTED_VERSION

\* C17: on an image with an unknown version string the master decode
\* succeeds, the mismatch is reported as a warning, and the run goes on to
\* the index traversal.
C17_UnknownVersionAsClaimed ==
    (UnknownVersion /\ pc # "parse_master") =>
        /\ master # NoMaster
        /\ version_warned
        /\ err # "Wrong master block signature"

\* the name of the n-th segment emitted under physical ordering
SeqName(e, n, raw) ==
    STR_CH \o ZeroPad(e.channel, 2) \o STR_UU \o STR_SEQ \o ZeroPad(n, 6)
    \o (IF e.recording THEN STR_RECORDING ELSE <<>>) \o <<46>> \o ext_of(raw)

\* C19: under physical ordering the n-th segment emitted, recording or
\* completed, carries the sequence number n in six digits: the numbers
\* start at 000001 and rise by one per segment.
C19_SeqNumbers ==
    (prog = "cli" /\ opts.physical) =>
        /\ seq = Len(emitted)
        /\ \A n \in 1..Len(emitted) :
               emitted[n].name = SeqName(emitted[n].entry, n, opts.raw)

C19_Witness ==
    /\ prog = "cli"
    /\ opts.physical
    /\ pc = "returned"
    /\ Len(emitted) = 2
    /\ emitted[1].entry.recording
    /\ ~emitted[2].entry.recording
    /\ emitted[1].name = SeqName(emitted[1].entry, 1, opts.raw)
    /\ emitted[2].name = SeqName(emitted[2].entry, 2, opts.raw)

\* how often e occurs in list
Occurrences(list, e) == Cardinality({i \in 1..Len(list) : list[i] = e})

\* the export loop has its list
ListReady == pc \in {"export_loop", "returned", "propagated"} /\ ~opts.master_only

\* C20: with channel = ch the list the loop emits holds exactly the catalog
\* entries of channel ch, each as often as the catalog does, and none of
\* another channel; without a channel it holds every catalog entry.  The
\* segments emitted are that list in order, all of it when the loop ends.
C20_ChannelFilter ==
    (prog = "cli" /\ ListReady) =>
        /\ \A i \in 1..Len(entrylist) :
               opts.channel # NoChannel => entrylist[i].channel = opts.channel
        /\ \A i \in 1..Len(entries) :
               (opts.channel = NoChannel \/ entries[i].channel = opts.channel)
                   => Occurrences(entrylist, entries[i]) = Occurrences(entries, entries[i])
        /\ Len(emitted) <= Len(entrylist)
        /\ \A i \in 1..Len(emitted) : emitted[i].entry = entrylist[i]
        /\ (pc = "returned") => Len(emitted) = Len(entrylist)

C20_Witness ==
    /\ prog = "cli"
    /\ pc = "returned"
    /\ opts.channel = 7
    /\ Len(entries) = 2
    /\ entries[1].channel = 100
    /\ entries[2].channel = 7
    /\ Len(emitted) = 1
    /\ emitted[1].entry = entries[2]

\* C21: in a list run (list_only) every segment is only listed: export_file
\* and rename_file_if_exists are not called for it, so no path is computed,
\* and no file exists in the destination folder at any time.
C21_ListOnly ==
    (prog = "cli" /\ opts.list_only) =>
        /\ files = {}
        /\ sink = "none"
        /\ pc # "propagated"
        /\ \A i \in 1..Len(emitted) :
               emitted[i].outcome = "listed" /\ emitted[i].path = <<>>

C21_Witness ==
    /\ prog = "cli"
    /\ opts.list_only
    /\ ~opts.master_only
    /\ pc = "returned"
    /\ Len(entrylist) = 2
    /\ Len(emitted) = 2
    /\ emitted[2].outcome = "listed"
    /\ files = {}

(***************************************************************************)
(* Properties of rename_file_if_exists (SpecRename).                       *)
(***************************************************************************)
\* C16: rename_file_if_exists(f) returns f when f does not exist; otherwise
\* it returns f with _k put before the extension, for the smallest k >= 1
\* whose name does not exist.  The path returned never names an existing
\* file, and it is the value the orchestrators use.
C16_RenameSmallestFree ==
    (pc = "rename_returned") =>
        /\ new_filename \notin files
        /\ (filename \notin files) => (new_filename = filename)
        /\ (filename \in files) =>
              \E k \in 1..(count - 1) :
                  /\ k = count - 1
                  /\ new_filename = InsertBeforeExt(filename, k)
                  /\ \A j \in 1..(k - 1) : InsertBeforeExt(filename, j) \in files
        /\ new_filename = rename_file_if_exists(prog, filename, files)

C16_Witness ==
    /\ pc = "rename_returned"
    /\ prog = "cli"
    /\ {filename, InsertBeforeExt(filename, 1), InsertBeforeExt(filename, 2)}
           \subseteq files
    /\ new_filename = InsertBeforeExt(filename, 3)
    /\ rfind(filename, 46) > rfind(filename, 47) + 1
    /\ \E i \in 1..rfind(filename, 47) : filename[i] = 46

(***************************************************************************)
(* Properties of export_file (SpecSink).                                   *)
(***************************************************************************)
\* C15: whenever export_file has returned or raised, the sink it opened (the
\* output file or the stdin pipe of ffmpeg) is closed, also when the carver
\* raised.
C15_SinkReleasedAsClaimed ==
    (pc \in {"export_file_returned", "export_file_raised"}) =>
        sink \notin {"pipe_open", "file_open"}

\* the number of times a worker has emitted a signal
CountSignal(signals, signal) ==
    Cardinality({j \in 1..Len(signals) : signals[j] = signal})

\* the signals of every run so far: finished is emitted when run ends and not
\* before, once, as the last signal; error at most once, and nothing but
\* finished follows it
C25_Signals ==
    \A w \in 1..Len(workers) :
        LET s == workers[w].signals
        IN /\ CountSignal(s, "finished") = IF workers[w].pc = "done" THEN 1 ELSE 0
           /\ workers[w].pc = "done" => s[Len(s)] = "finished"
           /\ CountSignal(s, "error") <= 1
           /\ \A j \in 1..Len(s) :
                  s[j] = "error" => \A k \in (j + 1)..Len(s) : s[k] = "finished"

\* a run that has ended emits nothing more
C25_Last ==
    \A w \in 1..Len(workers) :
        workers[w].pc = "done" => workers'[w].signals = workers[w].signals

\* C25: every execution of ParserWorker.run emits finished exactly once and
\* as its last signal, whether it parsed, exported, or met an exception of
\* parse_metadata or of export_video_block; error is emitted at most once,
\* only before finished, and no export_progress follows it.
C25_FinishedOnce ==
    /\ []C25_Signals
    /\ [][C25_Last]_vars
    /\ <>(\A w \in 1..Len(workers) : workers[w].pc = "done")

\* an export run of two entries whose second export raised
C25_Witness ==
    /\ Len(workers) = 1
    /\ workers[1].pc = "done"
    /\ workers[1].signals =
           <<"export_started", "export_progress", "error", "finished">>
    /\ Len(workers[1].entry_list) = 2
    /\ events = <<>>
    /\ window.btn_parse

\* a parse run whose parse_metadata raised
C25_WitnessParse ==
    /\ Len(workers) = 1
    /\ workers[1].pc = "done"
    /\ workers[1].signals = <<"error", "finished">>
    /\ workers[1].entry_list = <<>>

\* the workers started whose finished signal has not been handled
ActiveWorkers == {w \in 1..Len(workers) : ~workers[w].handled}

\* C26: at most one ParserWorker is active at a time: between the start of
\* a worker and the handling of its finished signal no sequence of clicks
\* starts a second one, and the rows of the segment table are the entry_list
\* of the current parser.
C26_OneWorkerAsClaimed ==
    /\ Cardinality(ActiveWorkers) <= 1
    /\ window.table # <<>> =>
          /\ window.current_parser # 0
          /\ window.table = parsers[window.current_parser].entry_list

====
